---- MODULE Spec2Model ----
(***************************************************************************)
(* A model of app.py: the recipient file (get_recipients, save_recipients), *)
(* the four views that use it (index, update_clients, trigger_email,       *)
(* delete_clients), the SMTP dispatch (send_email_to_all) and the handler  *)
(* of an exception that escapes a view (internal_error).                   *)
(*                                                                         *)
(* Strings are sequences of one-character strings, so that strip(),        *)
(* lower(), the validate_email pattern and the sort key are computed.      *)
(***************************************************************************)
EXTENDS Naturals, Sequences, FiniteSets

\* ------------------------------------------------------------ characters

UpperLetters == <<"A","B","C","D","E","F","G","H","I","J","K","L","M",
                  "N","O","P","Q","R","S","T","U","V","W","X","Y","Z">>
LowerLetters == <<"a","b","c","d","e","f","g","h","i","j","k","l","m",
                  "n","o","p","q","r","s","t","u","v","w","x","y","z">>
Digits == <<"0","1","2","3","4","5","6","7","8","9">>

Range(s) == {s[i] : i \in 1..Len(s)}

IndexIn(c, s) == CHOOSE i \in 1..Len(s) : s[i] = c

IsUpper(c) == c \in Range(UpperLetters)
IsLetter(c) == c \in Range(UpperLetters) \cup Range(LowerLetters)
IsDigit(c) == c \in Range(Digits)
IsSpace(c) == c \in {" ", "\n"}

\* The code point of a character (ASCII), the order str comparison uses.
Ord(c) ==
    IF c \in Range(UpperLetters) THEN 64 + IndexIn(c, UpperLetters)
    ELSE IF c \in Range(LowerLetters) THEN 96 + IndexIn(c, LowerLetters)
    ELSE IF c \in Range(Digits) THEN 47 + IndexIn(c, Digits)
    ELSE CASE c = "\n" -> 10 [] c = " " -> 32 [] c = "%" -> 37 [] c = "+" -> 43
           [] c = "-" -> 45 [] c = "." -> 46 [] c = "@" -> 64
           [] c = "_" -> 95

\* str.lower() on one character.
LowerChar(c) == IF IsUpper(c) THEN LowerLetters[IndexIn(c, UpperLetters)] ELSE c

\* str.lower()
Lower(s) == [i \in 1..Len(s) |-> LowerChar(s[i])]

\* str.strip(): leading and trailing whitespace removed.
RECURSIVE LStrip(_)
LStrip(s) == IF s # <<>> /\ IsSpace(Head(s)) THEN LStrip(Tail(s)) ELSE s

RECURSIVE RStrip(_)
RStrip(s) ==
    IF s # <<>> /\ IsSpace(s[Len(s)]) THEN RStrip(SubSeq(s, 1, Len(s) - 1)) ELSE s

Strip(s) == RStrip(LStrip(s))

\* s < t for str: lexicographic on code points.
RECURSIVE StrLess(_, _)
StrLess(s, t) ==
    IF t = <<>> THEN FALSE
    ELSE IF s = <<>> THEN TRUE
    ELSE IF Ord(Head(s)) < Ord(Head(t)) THEN TRUE
    ELSE IF Ord(Head(s)) > Ord(Head(t)) THEN FALSE
    ELSE StrLess(Tail(s), Tail(t))

\* ------------------------------------------------------- validate_email

LocalChar(c) == IsLetter(c) \/ IsDigit(c) \/ c \in {".", "_", "%", "+", "-"}
DomainChar(c) == IsLetter(c) \/ IsDigit(c) \/ c \in {".", "-"}

\* ^[a-zA-Z0-9._%+-]+@[a-zA-Z0-9.-]+\.[a-zA-Z]{2,}$ : neither class holds "@",
\* so the "@" is unique, and the last label holds letters only, so the "." of
\* the pattern is the last "." of the string.
MatchesPattern(email) ==
    \E at \in 2..Len(email) :
        /\ email[at] = "@"
        /\ \A k \in 1..(at - 1) : LocalChar(email[k])
        /\ \E dot \in (at + 2)..(Len(email) - 2) :
              /\ email[dot] = "."
              /\ \A k \in (at + 1)..(dot - 1) : DomainChar(email[k])
              /\ \A k \in (dot + 1)..Len(email) : IsLetter(email[k])

\* re.match(pattern, email) is not None: "$" matches at the end of the string
\* and also before a line break that ends it.
validate_email(email) ==
    \/ MatchesPattern(email)
    \/ /\ email # <<>>
       /\ email[Len(email)] = "\n"
       /\ MatchesPattern(SubSeq(email, 1, Len(email) - 1))

\* ------------------------------------------------------ list operations

\* list(dict.fromkeys(recipients)): the first occurrence of each string, compared
\* as str compares (exactly, case included).
RECURSIVE DictFromKeys(_)
DictFromKeys(s) ==
    IF s = <<>> THEN <<>>
    ELSE LET init == DictFromKeys(SubSeq(s, 1, Len(s) - 1))
             last == s[Len(s)]
         IN  IF last \in Range(init) THEN init ELSE Append(init, last)

\* One step of a stable sort on key str.lower: x goes after every element whose
\* key is not greater than its own.
RECURSIVE InsertByLower(_, _)
InsertByLower(sorted, x) ==
    IF sorted = <<>> THEN <<x>>
    ELSE IF StrLess(Lower(x), Lower(Head(sorted))) THEN <<x>> \o sorted
    ELSE <<Head(sorted)>> \o InsertByLower(Tail(sorted), x)

\* list.sort(key=str.lower)
RECURSIVE SortByLower(_)
SortByLower(s) ==
    IF s = <<>> THEN <<>>
    ELSE InsertByLower(SortByLower(SubSeq(s, 1, Len(s) - 1)), s[Len(s)])

\* --------------------------------------------------------------- bounds

\* Requests handled in one run of the server.
MaxRequests == 2

\* The longest list handed to save_recipients in SaveSpec.
MaxListLen == 3

\* ------------------------------------------------------------ constants

\* len(message) > 5000
MaxMessageLen == 5000

\* Flask serves requests on threads; two of them are modelled.
Workers == {"w1", "w2"}

\* len(message) > 50 / message[:50] in the Subject header
SubjectLen == 50

\* --------------------------------------------------------------- inputs

a_x_co == <<"a", "@", "x", ".", "c", "o">>
b_x_co == <<"b", "@", "x", ".", "c", "o">>
A_x_co == <<"A", "@", "x", ".", "c", "o">>
A_x_co_padded == <<" ", "A", "@", "x", ".", "c", "o", " ">>
a_x_c == <<"a", "@", "x", ".", "c">>
dot_a_x_co == <<".", "a", "@", "x", ".", "c", "o">>
dash_a_x_dotdot_co == <<"-", "a", "@", "x", ".", ".", "c", "o">>

\* request.form.get('new_email', ''): absent, two addresses, one of them also
\* in capitals with blanks around it, a string the pattern rejects, and an
\* address the pattern accepts whose local part starts with a dot.
NewEmails == {<<>>, a_x_co, A_x_co_padded, b_x_co, a_x_c, dot_a_x_co}

\* request.form.get('remove_email', ''): absent, or one of the two addresses.
RemoveEmails == {<<>>, A_x_co_padded, b_x_co}

\* The two fields of a form: one of them filled in and the other absent, or
\* an address to add together with the same address to remove.
UpdateForms ==
    {<<n, <<>> >> : n \in NewEmails \ {<<>>}}
    \cup {<< <<>>, r>> : r \in RemoveEmails \ {<<>>}}
    \cup {<<a_x_co, A_x_co_padded>>}

\* request.form.get('error', ''): a message is its leading whitespace, its
\* text (which neither starts nor ends with whitespace) and its trailing
\* whitespace, each by its length, and the position in the text of its first
\* line break (0 when it has none).
Message(lead, body, trail, linebreak) ==
    [lead |-> lead, body |-> body, trail |-> trail, linebreak |-> linebreak]
NoMessage == Message(0, 0, 0, 0)
FormMessages ==
    { NoMessage, Message(1, 0, 0, 0), Message(0, 3, 0, 2),
      Message(1, MaxMessageLen, 1, SubjectLen + 1),
      Message(0, MaxMessageLen + 1, 0, 0) }

\* StripMessage without the strip: the message as it came.
StripMessageForgotten(m) == m

\* str.strip() and len() on a message.
StripMessage(m) == Message(0, m.body, 0, m.linebreak)
MessageLen(m) == m.lead + m.body + m.trail

Request(kind, new_email, remove_email, message) ==
    [kind |-> kind, new_email |-> new_email, remove_email |-> remove_email,
     message |-> message]
NoRequest == Request("none", <<>>, <<>>, NoMessage)
Requests ==
    {Request("update", form[1], form[2], NoMessage) : form \in UpdateForms}
    \cup {Request("send", <<>>, <<>>, m) : m \in FormMessages}
    \cup {Request("delete", <<>>, <<>>, NoMessage)}
    \cup {Request("index", <<>>, <<>>, NoMessage)}

\* ----------------------------------------------------------------- file

NL == "\n"

\* "\n".join(lines)
RECURSIVE JoinLines(_)
JoinLines(lines) ==
    IF lines = <<>> THEN <<>>
    ELSE IF Len(lines) = 1 THEN lines[1]
    ELSE lines[1] \o <<NL>> \o JoinLines(Tail(lines))

\* f.readlines(), each line without the line break that ends it.
RECURSIVE ReadLines(_)
ReadLines(text) ==
    IF text = <<>> THEN <<>>
    ELSE IF NL \notin Range(text) THEN <<text>>
    ELSE LET n == CHOOSE i \in 1..Len(text) :
                      text[i] = NL /\ \A j \in 1..(i - 1) : text[j] # NL
         IN  <<SubSeq(text, 1, n - 1)>> \o ReadLines(SubSeq(text, n + 1, Len(text)))

\* CLIENT_FILE: absent, or its text. A file that was edited by hand may hold
\* bytes that are not UTF-8; reading it raises, open(.., "w") empties it.
\* Saved is the file after one address was added to an absent one.
FileOf(text) == [exists |-> TRUE, readable |-> TRUE, text |-> text]
Absent == [exists |-> FALSE, readable |-> TRUE, text |-> <<>>]
Undecodable == [exists |-> TRUE, readable |-> FALSE, text |-> <<>>]
HandEdited == FileOf(JoinLines(<<A_x_co_padded, a_x_c, <<>>, <<" ">>, <<>> >>))
OddDomain == FileOf(dash_a_x_dotdot_co)
Saved == FileOf(b_x_co)

NonBlank(line) == line # <<>>

\* Lines 57-59: the lines stripped, the blank ones and the ones validate_email
\* rejects dropped.
Recipients(text) ==
    LET lines == ReadLines(text)
        stripped == [i \in 1..Len(lines) |-> Strip(lines[i])]
    IN  SelectSeq(SelectSeq(stripped, NonBlank), validate_email)

\* One read() of the file object: what the file holds beyond the object's
\* offset, which is nothing when the file is no longer than that.
Chunk(text, offset) == SubSeq(text, offset + 1, Len(text))

\* The characters read so far end inside a line.
Unended(text) == text # <<>> /\ text[Len(text)] # NL

\* What save_recipients writes: "\n".join(unique_emails)
SavedText(recipients) == JoinLines(SortByLower(DictFromKeys(recipients)))

\* f.write(text) and the close that flushes it, by a handle that open(.., "w")
\* left at offset 0: the text replaces what the file holds from its start, and
\* what the file holds beyond the text's length stays.
Overlay(old, text) == text \o SubSeq(old, Len(text) + 1, Len(old))

\* How much of the text had reached the file when a write failed.
WrittenBefore == {0, 3}

\* -------------------------------------------------------------- flashes

Flash(cat, msg, email, n) == [cat |-> cat, msg |-> msg, email |-> email, n |-> n]
Error(msg, email) == Flash("error", msg, email, 0)
Success(msg, email, n) == Flash("success", msg, email, n)

\* An exception left the view: Flask calls the handler of error 500.
internal_error(flashed) ==
    Append(flashed, Error("An internal error occurred", <<>>))

\* ------------------------------------------------------- update_clients

\* .strip().lower() on a form field
FormField(raw) == Lower(Strip(raw))

\* AlreadyListed comparing the strings as they are.
AlreadyListedExact(new_email, current_emails) ==
    new_email \in {current_emails[i] : i \in 1..Len(current_emails)}

\* new_email.lower() in [email.lower() for email in current_emails]
AlreadyListed(new_email, current_emails) ==
    Lower(new_email) \in {Lower(current_emails[i]) : i \in 1..Len(current_emails)}

\* "# Add new email": the list, what is flashed, and changed.
AddEmail(new_email, current_emails) ==
    IF new_email = <<>>
    THEN [emails |-> current_emails, flashes |-> <<>>, changed |-> FALSE]
    ELSE IF ~validate_email(new_email)
    THEN [emails |-> current_emails,
          flashes |-> <<Error("Invalid email format", new_email)>>,
          changed |-> FALSE]
    ELSE IF AlreadyListed(new_email, current_emails)
    THEN [emails |-> current_emails,
          flashes |-> <<Error("is already in the recipient list", new_email)>>,
          changed |-> FALSE]
    ELSE [emails |-> Append(current_emails, new_email),
          flashes |-> <<Success("Added", new_email, 0)>>,
          changed |-> TRUE]

\* "# Remove email", on what AddEmail left.
RemoveEmail(remove_email, st) ==
    IF remove_email = <<>> THEN st
    ELSE LET Kept(email) == Lower(email) # remove_email
             kept == SelectSeq(st.emails, Kept)
         IN  IF Len(kept) < Len(st.emails)
             THEN [emails |-> kept,
                   flashes |-> Append(st.flashes, Success("Removed", remove_email, 0)),
                   changed |-> TRUE]
             ELSE [emails |-> kept,
                   flashes |-> Append(st.flashes,
                                      Error("was not found in the recipient list",
                                            remove_email)),
                   changed |-> st.changed]

\* ListToSave if the file were read again and merged when saving.
ListToSaveMerged(current_emails, f) == Recipients(f.text) \o current_emails

\* The list save_recipients is handed: the one built from this request's read.
ListToSave(current_emails, f) == current_emails
\* ---------------------------------------------------------------- state

VARIABLES
    file,        \* CLIENT_FILE on disk
    orphans,     \* files os.remove unlinked while a handle was open on them
    stdout,      \* the encoding of sys.stdout, which print() writes to
    started,     \* requests received so far
    pc,          \* where each worker's handler is
    caller,      \* which call of get_recipients the worker is in
    req,         \* the request each worker is handling
    read,        \* update_clients: what get_recipients returned (line 144)
    emails,      \* update_clients: current_emails
    changed,     \* update_clients: changed
    saved,       \* update_clients: how the call of save_recipients ended
    pending,     \* save_recipients: the text it is about to write
    handle,      \* the file object f of line 56 or line 71: what it is open on
    buffer,      \* f.readlines(): the file object's offset, the text read so far
    recipients,  \* trigger_email: recipients (line 125)
    to,          \* send_email_to_all: recipients (line 82)
    smtp,        \* what this request did on its SMTP connection, in order
    accepted,    \* the RCPT addresses the server accepted the message for
    flashes      \* what the request flashed, in order

vars == <<file, orphans, stdout, started, pc, caller, req, read, emails, changed,
          saved, pending, handle, buffer, recipients, to, smtp, accepted, flashes>>

updateVars == <<read, emails, changed, saved, pending>>
sendVars == <<recipients, to, smtp, accepted>>

Idle(w) == pc[w] \in {"idle", "done"}

Flashed(w, cat, msg) ==
    \E i \in 1..Len(flashes[w]) : flashes[w][i].cat = cat /\ flashes[w][i].msg = msg

FlashedCat(w, cat) == \E i \in 1..Len(flashes[w]) : flashes[w][i].cat = cat

\* Every print() of a handler writes a mark that ASCII cannot encode: with
\* such a stdout the print raises UnicodeEncodeError.
Encodings == {"utf-8", "ascii"}
PrintRaises == stdout = "ascii"

\* A file that was unlinked lives on while a handle is open on it. A remover
\* holds no handle, so the workers but one can hold handles on unlinked files.
OrphanIds == 1..(Cardinality(Workers) - 1)
NoOrphans == [k \in OrphanIds |-> Absent]

\* A handle: closed, open on CLIENT_FILE, or open on a file that was unlinked.
Closed == [on |-> "none", id |-> 0]
OnPath == [on |-> "path", id |-> 0]
Unlinked(k) == [on |-> "unlinked", id |-> k]

\* A file object that has read nothing yet.
NoneRead == [offset |-> 0, text |-> <<>>]

\* The file a handle is open on.
Opened(h) == IF h.on = "path" THEN file ELSE orphans[h.id]

\* Worker w closes its handle: an unlinked file no handle is open on is gone.
Released(w, files) ==
    IF handle[w].on = "unlinked" /\ \A u \in Workers \ {w} : handle[u] # handle[w]
    THEN [files EXCEPT ![handle[w].id] = Absent]
    ELSE files

InitWith(f, encoding) ==
    /\ file = f
    /\ orphans = NoOrphans
    /\ stdout = encoding
    /\ started = 0
    /\ pc = [w \in Workers |-> "idle"]
    /\ caller = [w \in Workers |-> "none"]
    /\ req = [w \in Workers |-> NoRequest]
    /\ read = [w \in Workers |-> <<>>]
    /\ emails = [w \in Workers |-> <<>>]
    /\ changed = [w \in Workers |-> FALSE]
    /\ saved = [w \in Workers |-> "not called"]
    /\ pending = [w \in Workers |-> <<>>]
    /\ handle = [w \in Workers |-> Closed]
    /\ buffer = [w \in Workers |-> NoneRead]
    /\ recipients = [w \in Workers |-> <<>>]
    /\ to = [w \in Workers |-> <<>>]
    /\ smtp = [w \in Workers |-> <<>>]
    /\ accepted = [w \in Workers |-> {}]
    /\ flashes = [w \in Workers |-> <<>>]

\* The server starts with no file, or with one somebody wrote by hand, or with
\* one an earlier run saved.
Init ==
    \E f \in {Absent, HandEdited, Undecodable, OddDomain, Saved} :
        \E encoding \in Encodings : InitWith(f, encoding)

\* A request arrives and Flask calls its view on a free worker.
FirstStep(kind) ==
    CASE kind = "index" -> "index"
      [] kind = "update" -> "update_clients"
      [] kind = "send" -> "trigger_email"
      [] kind = "delete" -> "delete_clients"

Receive(w, r) ==
    /\ Idle(w)
    /\ started < MaxRequests
    /\ started' = started + 1
    /\ pc' = [pc EXCEPT ![w] = FirstStep(r.kind)]
    /\ caller' = [caller EXCEPT ![w] = "none"]
    /\ req' = [req EXCEPT ![w] = r]
    /\ read' = [read EXCEPT ![w] = <<>>]
    /\ emails' = [emails EXCEPT ![w] = <<>>]
    /\ changed' = [changed EXCEPT ![w] = FALSE]
    /\ saved' = [saved EXCEPT ![w] = "not called"]
    /\ pending' = [pending EXCEPT ![w] = <<>>]
    /\ recipients' = [recipients EXCEPT ![w] = <<>>]
    /\ to' = [to EXCEPT ![w] = <<>>]
    /\ smtp' = [smtp EXCEPT ![w] = <<>>]
    /\ accepted' = [accepted EXCEPT ![w] = {}]
    /\ flashes' = [flashes EXCEPT ![w] = <<>>]
    /\ UNCHANGED <<file, orphans, stdout, handle, buffer>>

\* ---------------------------------------- what follows get_recipients

\* Line 110: index renders the page; an exception leaves the view.
IndexReturned(w, raised) ==
    /\ flashes' = [flashes EXCEPT ![w] = IF raised THEN internal_error(<<>>) ELSE <<>>]
    /\ pc' = [pc EXCEPT ![w] = "done"]
    /\ UNCHANGED <<read, emails, changed, recipients, to>>

\* Lines 142-168: the fields, the add, the remove, on the list that was read.
Updated(r, current_emails) ==
    RemoveEmail(FormField(r.remove_email),
                AddEmail(FormField(r.new_email), current_emails))

\* Lines 144-170: when get_recipients raised, the exception leaves the view
\* before anything is flashed.
UpdateReturned(w, raised, found) ==
    IF raised
    THEN /\ flashes' = [flashes EXCEPT ![w] = internal_error(<<>>)]
         /\ pc' = [pc EXCEPT ![w] = "done"]
         /\ UNCHANGED <<read, emails, changed, recipients, to>>
    ELSE LET st == Updated(req[w], found)
         IN  /\ read' = [read EXCEPT ![w] = found]
             /\ emails' = [emails EXCEPT ![w] = st.emails]
             /\ changed' = [changed EXCEPT ![w] = st.changed]
             /\ flashes' = [flashes EXCEPT ![w] = st.flashes]
             /\ pc' = [pc EXCEPT ![w] =
                          IF st.changed THEN "save_recipients" ELSE "done"]
             /\ UNCHANGED <<recipients, to>>

\* Lines 125-131: the recipient check of trigger_email.
TriggerReturned(w, raised, found) ==
    /\ IF raised
       THEN /\ flashes' = [flashes EXCEPT ![w] = internal_error(<<>>)]
            /\ pc' = [pc EXCEPT ![w] = "done"]
       ELSE IF found = <<>>
       THEN /\ flashes' = [flashes EXCEPT ![w] =
                              <<Error("No recipients configured", <<>>)>>]
            /\ pc' = [pc EXCEPT ![w] = "done"]
       ELSE /\ pc' = [pc EXCEPT ![w] = "send_email_to_all"]
            /\ UNCHANGED flashes
    /\ recipients' = [recipients EXCEPT ![w] = found]
    /\ UNCHANGED <<read, emails, changed, to>>

\* Lines 133-135: whatever send_email_to_all raises is flashed as a failure
\* and printed; when the print raises, the exception leaves the view.
Failed(reason) == Error("Failed to send email", reason)

SendRaised(reason) ==
    IF PrintRaises THEN internal_error(<<Failed(reason)>>) ELSE <<Failed(reason)>>

\* Line 87: the Subject header takes the first 50 characters of the message,
\* and EmailMessage refuses a header value with a line break in it.
SubjectRaises(message) == message.linebreak \in 1..SubjectLen

\* Line 89: the To header is parsed when it is set, and the parser of
\* EmailMessage raises TypeError on an address that starts with a dot and
\* follows another address.
ToRaises(found) == \E i \in 2..Len(found) : Head(found[i]) = "."

\* What lines 82-90 raise, if anything.
BuildError(raised, found, message) ==
    IF raised THEN "'ascii' codec can't encode character"
    ELSE IF found = <<>> THEN "No recipients configured"
    ELSE IF SubjectRaises(message)
    THEN "Header values may not contain linefeed or carriage return characters"
    ELSE IF ToRaises(found)
    THEN "'ValueTerminal' object does not support item assignment"
    ELSE "none"

\* Lines 83-90: the recipient check of send_email_to_all, and the message.
SendReturned(w, raised, found) ==
    LET error == BuildError(raised, found, StripMessage(req[w].message))
    IN  /\ to' = [to EXCEPT ![w] = found]
        /\ IF error # "none"
           THEN /\ flashes' = [flashes EXCEPT ![w] = SendRaised(error)]
                /\ pc' = [pc EXCEPT ![w] = "done"]
           ELSE /\ pc' = [pc EXCEPT ![w] = "SMTP_SSL"]
                /\ UNCHANGED flashes
        /\ UNCHANGED <<read, emails, changed, recipients>>

\* get_recipients returns the list found to the call it was made from, or
\* raises there.
Returned(w, from, raised, found) ==
    CASE from = "index" -> IndexReturned(w, raised)
      [] from = "update_clients" -> UpdateReturned(w, raised, found)
      [] from = "trigger_email" -> TriggerReturned(w, raised, found)
      [] from = "send_email_to_all" -> SendReturned(w, raised, found)

\* Lines 60-62: the except clause prints and returns []; or the print raises.
ReadRaised(w, from) == Returned(w, from, PrintRaises, <<>>)

\* ------------------------------------------------------- get_recipients

\* Lines 53-54: os.path.exists(CLIENT_FILE); without the file, [] is returned.
os_path_exists(w, from) ==
    /\ caller' = [caller EXCEPT ![w] = from]
    /\ IF file.exists
       THEN /\ pc' = [pc EXCEPT ![w] = "open"]
            /\ UNCHANGED <<flashes, read, emails, changed, recipients, to>>
       ELSE Returned(w, from, FALSE, <<>>)
    /\ UNCHANGED <<file, orphans, stdout, started, req, saved, pending, handle, buffer,
                   smtp, accepted>>

\* Line 56: open(CLIENT_FILE, "r"), which raises when the file has gone since
\* line 53.
open(w) ==
    /\ pc[w] = "open"
    /\ IF file.exists
       THEN /\ handle' = [handle EXCEPT ![w] = OnPath]
            /\ pc' = [pc EXCEPT ![w] = "readlines"]
            /\ UNCHANGED <<flashes, read, emails, changed, recipients, to>>
       ELSE /\ ReadRaised(w, caller[w])
            /\ UNCHANGED handle
    /\ UNCHANGED <<file, orphans, stdout, started, caller, req, saved, pending,
                   buffer, smtp, accepted>>

\* Lines 57-62, when f.readlines() is over: the list is returned or the
\* except clause is entered, and the with block closes the handle.
CloseRead(w) ==
    /\ handle' = [handle EXCEPT ![w] = Closed]
    /\ buffer' = [buffer EXCEPT ![w] = NoneRead]
    /\ orphans' = Released(w, orphans)

\* Lines 57-59: f.readlines() is one read() after another of the file the
\* handle is open on, each taking what the file holds by then beyond the
\* offset the reads before it reached. Bytes that are not UTF-8 make it raise.
\* A read() that gets nothing ends the line being read; one that gets nothing
\* when no line is being read ends f.readlines().
readlines(w) ==
    /\ pc[w] = "readlines"
    /\ LET f == Opened(handle[w])
           chunk == Chunk(f.text, buffer[w].offset)
           text == buffer[w].text
       IN  IF ~f.readable
           THEN ReadRaised(w, caller[w]) /\ CloseRead(w)
           ELSE IF chunk # <<>> \/ Unended(text)
           THEN /\ buffer' = [buffer EXCEPT ![w] =
                                  [offset |-> buffer[w].offset + Len(chunk),
                                   text |-> IF chunk # <<>> THEN text \o chunk
                                            ELSE Append(text, NL)]]
                /\ UNCHANGED <<pc, handle, orphans, flashes, read, emails, changed,
                               recipients, to>>
           ELSE Returned(w, caller[w], FALSE, Recipients(text)) /\ CloseRead(w)
    /\ UNCHANGED <<file, stdout, started, caller, req, saved, pending, smtp, accepted>>

\* ---------------------------------------------------------------- index

\* Line 110: get_recipients() for the page.
index(w) ==
    /\ pc[w] = "index"
    /\ os_path_exists(w, "index")

\* ------------------------------------------------------- update_clients

\* Lines 142-144: the fields, and get_recipients().
update_clients(w) ==
    /\ pc[w] = "update_clients"
    /\ os_path_exists(w, "update_clients")

\* Lines 76-78 and 174-175: save_recipients prints and returns False, and
\* update_clients flashes the error; or the print raises and the exception
\* leaves the view.
SaveRaised(w) ==
    /\ saved' = [saved EXCEPT ![w] = IF PrintRaises THEN "raised" ELSE "False"]
    /\ flashes' = [flashes EXCEPT ![w] =
                      IF PrintRaises THEN internal_error(@)
                      ELSE Append(@, Error("Error saving recipient list", <<>>))]

\* Lines 68-71: the text is built and open(CLIENT_FILE, "w") empties the file
\* (creating it when it is absent), or raises and leaves it as it was.
OpenOutcomes == {"opened", "open raises"}

save_recipients(w, outcome) ==
    /\ pc[w] = "save_recipients"
    /\ IF outcome = "opened"
       THEN /\ pending' = [pending EXCEPT ![w] = SavedText(ListToSave(emails[w], file))]
            /\ file' = FileOf(<<>>)
            /\ handle' = [handle EXCEPT ![w] = OnPath]
            /\ pc' = [pc EXCEPT ![w] = "f.write"]
            /\ UNCHANGED <<saved, flashes>>
       ELSE /\ SaveRaised(w)
            /\ pc' = [pc EXCEPT ![w] = "done"]
            /\ UNCHANGED <<file, pending, handle>>
    /\ UNCHANGED <<orphans, stdout, started, caller, req, read, emails, changed,
                   buffer, sendVars>>

\* What f.write(text) and the close that flushes it leave in the file the
\* handle is open on.
Written(w, text) == FileOf(Overlay(Opened(handle[w]).text, text))

\* Lines 72-75: f.write and the close of the with block put the text at the
\* start of the file the handle is open on, which is CLIENT_FILE unless
\* os.remove has unlinked it since; then line 74 prints and True is returned.
\* When the print raises, the except clause of line 76 is entered. When the
\* write fails, the start of the text may have reached the file.
WriteOutcomes == {"written", "write raises"}

f_write(w, outcome, reached) ==
    /\ pc[w] = "f.write"
    /\ reached <= Len(pending[w])
    /\ outcome = "written" => reached = 0
    /\ LET text == IF outcome = "written" THEN pending[w]
                   ELSE SubSeq(pending[w], 1, reached)
       IN  /\ file' = IF handle[w] = OnPath THEN Written(w, text) ELSE file
           /\ orphans' = IF handle[w] = OnPath THEN orphans
                         ELSE Released(w, [orphans EXCEPT ![handle[w].id] =
                                                      Written(w, text)])
    /\ IF outcome = "written" /\ ~PrintRaises
       THEN /\ saved' = [saved EXCEPT ![w] = "True"]
            /\ UNCHANGED flashes
       ELSE SaveRaised(w)
    /\ handle' = [handle EXCEPT ![w] = Closed]
    /\ pending' = [pending EXCEPT ![w] = <<>>]
    /\ pc' = [pc EXCEPT ![w] = "done"]
    /\ UNCHANGED <<stdout, started, caller, req, read, emails, changed, buffer,
                   sendVars>>

\* ------------------------------------------------------- delete_clients

\* Line 183: os.path.exists(CLIENT_FILE)
delete_clients(w) ==
    /\ pc[w] = "delete_clients"
    /\ IF file.exists
       THEN /\ pc' = [pc EXCEPT ![w] = "os.remove"]
            /\ UNCHANGED flashes
       ELSE /\ pc' = [pc EXCEPT ![w] = "done"]
            /\ flashes' = [flashes EXCEPT ![w] =
                              <<Error("No recipient list found to delete", <<>>)>>]
    /\ UNCHANGED <<file, orphans, stdout, started, caller, req, updateVars, handle, buffer,
                   sendVars>>

\* Lines 189-191: the error is flashed and printed; when the print raises, the
\* exception leaves the view.
DeleteRaised(flashed) ==
    LET told == Append(flashed, Error("Error deleting recipient list", <<>>))
    IN  IF PrintRaises THEN internal_error(told) ELSE told

\* The workers with a handle open on CLIENT_FILE.
Holders == {u \in Workers : handle[u] = OnPath}

\* Lines 184-186: os.remove(CLIENT_FILE) unlinks the file, which lives on for
\* the handles that have it open, then the success is flashed and printed; or
\* it raises, because the file has gone since line 183 or may not be removed.
RemoveOutcomes == {"removed", "os.remove raises"}

os_remove(w, outcome) ==
    /\ pc[w] = "os.remove"
    /\ outcome = "removed" => file.exists
    /\ IF outcome = "removed"
       THEN /\ file' = Absent
            /\ IF Holders = {}
               THEN UNCHANGED <<handle, orphans>>
               ELSE LET Free(i) == \A u \in Workers : handle[u] # Unlinked(i)
                        k == CHOOSE i \in OrphanIds :
                                 Free(i) /\ \A j \in OrphanIds : Free(j) => i <= j
                    IN  /\ handle' = [u \in Workers |->
                                         IF u \in Holders THEN Unlinked(k) ELSE handle[u]]
                        /\ orphans' = [orphans EXCEPT ![k] = file]
            /\ flashes' = [flashes EXCEPT ![w] =
                  LET told == <<Success("All recipients deleted successfully", <<>>, 0)>>
                  IN  IF PrintRaises THEN DeleteRaised(told) ELSE told]
       ELSE /\ flashes' = [flashes EXCEPT ![w] = DeleteRaised(<<>>)]
            /\ UNCHANGED <<file, handle, orphans>>
    /\ pc' = [pc EXCEPT ![w] = "done"]
    /\ UNCHANGED <<stdout, started, caller, req, updateVars, buffer, sendVars>>

\* -------------------------------------------------------- trigger_email

\* if not message / if len(message) > 5000, on the stripped message
MessageError(message) ==
    IF MessageLen(message) = 0 THEN "Message cannot be empty"
    ELSE IF MessageLen(message) > MaxMessageLen THEN "Message is too long"
    ELSE "none"

\* Lines 115-125: the message checks, then get_recipients().
trigger_email(w) ==
    /\ pc[w] = "trigger_email"
    /\ LET message == StripMessage(req[w].message)
       IN  IF MessageError(message) # "none"
           THEN /\ flashes' = [flashes EXCEPT ![w] = <<Error(MessageError(message), <<>>)>>]
                /\ pc' = [pc EXCEPT ![w] = "done"]
                /\ UNCHANGED <<file, orphans, stdout, started, caller, req,
                               updateVars, handle, buffer, sendVars>>
           ELSE os_path_exists(w, "trigger_email")

\* Line 82: get_recipients(), again.
send_email_to_all(w) ==
    /\ pc[w] = "send_email_to_all"
    /\ os_path_exists(w, "send_email_to_all")

\* What the except clauses of lines 97-102 make of an exception.
Reason(exception) ==
    CASE exception = "SMTPAuthenticationError" -> "Email authentication failed"
      [] exception = "SMTPException" -> "SMTP error occurred"
      [] exception = "Exception" -> "Unexpected error sending email"

\* Line 93: smtplib.SMTP_SSL('smtp.gmail.com', 465) connects, or raises
\* (SMTPConnectError is an SMTPException, a refused connection an OSError).
ConnectOutcomes == {"connected", "SMTPException", "Exception"}

SMTP_SSL(w, outcome) ==
    /\ pc[w] = "SMTP_SSL"
    /\ IF outcome = "connected"
       THEN /\ smtp' = [smtp EXCEPT ![w] = Append(@, "connect")]
            /\ pc' = [pc EXCEPT ![w] = "login"]
            /\ UNCHANGED flashes
       ELSE /\ smtp' = [smtp EXCEPT ![w] = Append(@, "connect raises")]
            /\ flashes' = [flashes EXCEPT ![w] = SendRaised(Reason(outcome))]
            /\ pc' = [pc EXCEPT ![w] = "done"]
    /\ UNCHANGED <<file, orphans, stdout, started, caller, req, updateVars, handle, buffer,
                   recipients, to, accepted>>

\* The with block of line 93: leaving it, normally or by an exception, sends
\* QUIT and closes the session.
WithExit(log) == Append(log, "close")

\* The server's reply to QUIT: 221, or another code, for which the exit of the
\* with block raises SMTPResponseException in place of what was being raised.
QuitReplies == {"221", "not 221"}
AfterExit(exception, quit) == IF quit = "221" THEN exception ELSE "SMTPException"

\* Line 94: smtp.login; when it raises, the with block closes the session.
LoginOutcomes == {"logged in", "SMTPAuthenticationError", "SMTPException", "Exception"}

login(w, outcome, quit) ==
    /\ pc[w] = "login"
    /\ IF outcome = "logged in"
       THEN /\ quit = "221"
            /\ smtp' = [smtp EXCEPT ![w] = Append(@, "login")]
            /\ pc' = [pc EXCEPT ![w] = "send_message"]
            /\ UNCHANGED flashes
       ELSE /\ smtp' = [smtp EXCEPT ![w] = WithExit(Append(@, "login raises"))]
            /\ flashes' = [flashes EXCEPT ![w] =
                              SendRaised(Reason(AfterExit(outcome, quit)))]
            /\ pc' = [pc EXCEPT ![w] = "done"]
    /\ UNCHANGED <<file, orphans, stdout, started, caller, req, updateVars, handle, buffer,
                   recipients, to, accepted>>

\* Line 132: the count in the success message.
SentCount(first, second) == Len(first)

\* The part of an address after its "@".
Domain(address) ==
    LET at == CHOOSE i \in 1..Len(address) : address[i] = "@"
    IN  SubSeq(address, at + 1, Len(address))

\* The address send_message gives RCPT for an address of the To header: the
\* header is parsed again, and an address whose domain starts with a dot or
\* holds two dots in a row comes out empty.
RcptAddress(address) ==
    LET domain == Domain(address)
    IN  IF \/ Head(domain) = "."
           \/ \E i \in 1..(Len(domain) - 1) : domain[i] = "." /\ domain[i + 1] = "."
        THEN <<>>
        ELSE address

RcptAddresses(found) == {RcptAddress(found[i]) : i \in 1..Len(found)}

\* Lines 95-96: smtp.send_message(msg), the exit of the with block, the print.
\* smtplib raises when the sender, every recipient or the data is refused; it
\* returns normally when the server accepted the message for at least one
\* recipient, and what it returns then (the recipients that were refused) is
\* not looked at. The print of line 96 is inside the try block.
SendOutcomes == {"returns", "SMTPException", "Exception"}

send_message(w, outcome, refused, quit) ==
    /\ pc[w] = "send_message"
    /\ IF outcome = "returns"
       THEN /\ smtp' = [smtp EXCEPT ![w] = WithExit(Append(@, "send_message"))]
            /\ accepted' = [accepted EXCEPT ![w] = RcptAddresses(to[w]) \ refused]
            /\ flashes' = [flashes EXCEPT ![w] =
                  IF quit # "221" THEN SendRaised(Reason(AfterExit("none", quit)))
                  ELSE IF PrintRaises THEN SendRaised(Reason("Exception"))
                  ELSE <<Success("Alert sent successfully", <<>>,
                                 SentCount(recipients[w], to[w]))>>]
       ELSE /\ refused = {}
            /\ smtp' = [smtp EXCEPT ![w] = WithExit(Append(@, "send_message raises"))]
            /\ flashes' = [flashes EXCEPT ![w] =
                              SendRaised(Reason(AfterExit(outcome, quit)))]
            /\ UNCHANGED accepted
    /\ pc' = [pc EXCEPT ![w] = "done"]
    /\ UNCHANGED <<file, orphans, stdout, started, caller, req, updateVars, handle, buffer,
                   recipients, to>>

\* ------------------------------------------------------- specifications

Step(w) ==
    \/ index(w)
    \/ open(w)
    \/ readlines(w)
    \/ update_clients(w)
    \/ \E outcome \in OpenOutcomes : save_recipients(w, outcome)
    \/ \E outcome \in WriteOutcomes, reached \in WrittenBefore :
          f_write(w, outcome, reached)
    \/ delete_clients(w)
    \/ \E outcome \in RemoveOutcomes : os_remove(w, outcome)
    \/ trigger_email(w)
    \/ send_email_to_all(w)
    \/ \E outcome \in ConnectOutcomes : SMTP_SSL(w, outcome)
    \/ \E outcome \in LoginOutcomes, quit \in QuitReplies : login(w, outcome, quit)
    \/ \E outcome \in SendOutcomes, quit \in QuitReplies :
          \E refused \in (SUBSET RcptAddresses(to[w])) \ {RcptAddresses(to[w])} :
              send_message(w, outcome, refused, quit)

\* Requests are handled as they come, on any free worker.
Next ==
    \E w \in Workers :
        \/ \E r \in Requests : Receive(w, r)
        \/ Step(w)

Spec == Init /\ [][Next]_vars

\* One request at a time, starting with no file.
Alone(w) == \A u \in Workers \ {w} : Idle(u)

SeqInit == \E encoding \in Encodings : InitWith(Absent, encoding)

SeqNext ==
    \E w \in Workers :
        \/ \E r \in Requests : Alone(w) /\ Receive(w, r)
        \/ Step(w)

SeqSpec == SeqInit /\ [][SeqNext]_vars

\* save_recipients alone, on every list of up to MaxListLen addresses.
B_x_co == <<"B", "@", "x", ".", "c", "o">>
SaveAddresses == {a_x_co, A_x_co, b_x_co, B_x_co}

RECURSIVE ListsUpTo(_)
ListsUpTo(n) ==
    IF n = 0 THEN {<<>>}
    ELSE LET shorter == ListsUpTo(n - 1)
         IN  shorter \cup {Append(l, x) : l \in shorter, x \in SaveAddresses}

SaveInit ==
    \E list \in ListsUpTo(MaxListLen) :
        \E encoding \in Encodings :
            /\ file = Absent
            /\ orphans = NoOrphans
            /\ stdout = encoding
            /\ started = 1
            /\ pc = [w \in Workers |-> IF w = "w1" THEN "save_recipients" ELSE "idle"]
            /\ caller = [w \in Workers |-> "none"]
            /\ req = [w \in Workers |-> NoRequest]
            /\ read = [w \in Workers |-> <<>>]
            /\ emails = [w \in Workers |-> IF w = "w1" THEN list ELSE <<>>]
            /\ changed = [w \in Workers |-> w = "w1"]
            /\ saved = [w \in Workers |-> "not called"]
            /\ pending = [w \in Workers |-> <<>>]
            /\ handle = [w \in Workers |-> Closed]
            /\ buffer = [w \in Workers |-> NoneRead]
            /\ recipients = [w \in Workers |-> <<>>]
            /\ to = [w \in Workers |-> <<>>]
            /\ smtp = [w \in Workers |-> <<>>]
            /\ accepted = [w \in Workers |-> {}]
            /\ flashes = [w \in Workers |-> <<>>]

SaveNext ==
    \/ \E outcome \in OpenOutcomes : save_recipients("w1", outcome)
    \/ \E outcome \in WriteOutcomes, reached \in WrittenBefore :
          f_write("w1", outcome, reached)

SaveSpec == SaveInit /\ [][SaveNext]_vars

\* --------------------------------------------------------------- claims

\* No two lines equal when case is ignored.
NoDuplicatesIgnoringCase(lines) ==
    \A i, j \in 1..Len(lines) : i # j => Lower(lines[i]) # Lower(lines[j])

\* Each line's lowered form is not below the one before it.
SortedIgnoringCase(lines) ==
    \A i \in 1..(Len(lines) - 1) : ~StrLess(Lower(lines[i + 1]), Lower(lines[i]))

\* The file holds a line equal to the address when blanks around either and
\* case are ignored.
Stored(address, f) ==
    /\ f.exists
    /\ \E i \in 1..Len(ReadLines(f.text)) :
          Lower(Strip(ReadLines(f.text)[i])) = Lower(Strip(address))

\* save_recipients returned False.
SaveFailed(w) == saved[w] = "False"

\* C1: whatever list save_recipients is given, the file it writes has no two
\* lines equal when case is ignored, and its lines are sorted ignoring case.
C1_SaveWritesUniqueSorted ==
    (pc["w1"] = "done" /\ saved["w1"] = "True") =>
        /\ file.exists
        /\ NoDuplicatesIgnoringCase(ReadLines(file.text))
        /\ SortedIgnoringCase(ReadLines(file.text))

\* C2: with requests handled one at a time from an absent file, the stored
\* list never holds two entries equal ignoring case, holds only entries that
\* pass validate_email, and is sorted ignoring case.
C2_StoredListInvariant ==
    file.exists =>
        LET lines == ReadLines(file.text)
        IN  /\ NoDuplicatesIgnoringCase(lines)
            /\ \A i \in 1..Len(lines) : validate_email(lines[i])
            /\ SortedIgnoringCase(lines)

\* A request that carries an address to add and none to remove, and the converse.
AddRequest(r) ==
    r.kind = "update" /\ Strip(r.new_email) # <<>> /\ Strip(r.remove_email) = <<>>
RemoveRequest(r) ==
    r.kind = "update" /\ Strip(r.new_email) = <<>> /\ Strip(r.remove_email) # <<>>

\* Worker w's update_clients gets the list from get_recipients and goes
\* through its add and its remove.
Updates(w) ==
    /\ req[w].kind = "update"
    /\ pc[w] \in {"update_clients", "open", "readlines"}
    /\ pc'[w] \in {"save_recipients", "done"}

\* The file as that step has it: the text f.readlines() took from the file
\* its handle is open on, else CLIENT_FILE, which the step finds absent.
ReadBy(w) == IF pc[w] = "readlines" THEN FileOf(buffer[w].text) ELSE file

\* C3: an add request for a valid address the file it reads already holds
\* (ignoring case) flashes "already in the recipient list" as an error and nothing else, does
\* not call save_recipients, and leaves the file as it was.
C3_SecondAddRejected ==
    [][\A w \in Workers :
          (Updates(w) /\ AddRequest(req[w]) /\ Stored(req[w].new_email, ReadBy(w))
                      /\ validate_email(Lower(Strip(req[w].new_email)))) =>
              /\ flashes'[w] = <<Error("is already in the recipient list",
                                       Lower(Strip(req[w].new_email)))>>
              /\ pc'[w] = "done"
              /\ saved'[w] = "not called"
              /\ file' = file]_vars

C3_Witness ==
    \E w, u \in Workers :
        /\ w # u
        /\ pc[u] = "done" /\ AddRequest(req[u]) /\ saved[u] = "True"
        /\ Flashed(u, "success", "Added")
        /\ pc[w] = "done" /\ AddRequest(req[w]) /\ saved[w] = "not called"
        /\ Lower(Strip(req[w].new_email)) = Lower(Strip(req[u].new_email))
        /\ Flashed(w, "error", "is already in the recipient list")
        /\ Stored(req[w].new_email, file)

\* C4: a remove request for an address the file it reads does not hold
\* (ignoring case) flashes "was not found" as an error and nothing else, does
\* not call save_recipients and leaves the file as it was, absent if it was
\* absent; and a remove request sets changed exactly when the list got shorter.
C4_RemoveAbsentLeavesFile ==
    [][\A w \in Workers :
          (Updates(w) /\ RemoveRequest(req[w])) =>
              /\ ~Stored(req[w].remove_email, ReadBy(w)) =>
                    /\ flashes'[w] = <<Error("was not found in the recipient list",
                                             Lower(Strip(req[w].remove_email)))>>
                    /\ pc'[w] = "done"
                    /\ saved'[w] = "not called"
                    /\ file' = file
              /\ changed'[w] <=> Len(emails'[w]) < Len(read'[w])
              /\ changed'[w] <=> pc'[w] = "save_recipients"]_vars

\* The handler of a send request has found the message empty once trimmed, or
\* longer than 5000 characters, or has got no valid recipient from one of its
\* two calls of get_recipients.
Refused(w) ==
    /\ req[w].kind = "send"
    /\ pc[w] # "trigger_email"
    /\ \/ req[w].message.body = 0
       \/ req[w].message.body > MaxMessageLen
       \/ pc[w] = "done" /\ recipients[w] = <<>>
       \/ pc[w] = "done" /\ to[w] = <<>>

\* C5: a send request whose message is empty once trimmed or longer than 5000
\* characters, or that finds no valid recipient, ends with an error flashed,
\* no success flashed, and no SMTP connection attempted; a connection is
\* attempted only after both calls of get_recipients found a recipient.
C5_RefusedSendOpensNoSession ==
    \A w \in Workers :
        /\ Refused(w) =>
              /\ pc[w] = "done"
              /\ FlashedCat(w, "error")
              /\ ~FlashedCat(w, "success")
              /\ smtp[w] = <<>>
              /\ accepted[w] = {}
        /\ smtp[w] # <<>> =>
              /\ req[w].message.body \in 1..MaxMessageLen
              /\ recipients[w] # <<>>
              /\ to[w] # <<>>

C5_Witness ==
    \E w, u \in Workers :
        /\ w # u
        /\ pc[w] = "done" /\ req[w].kind = "send"
        /\ req[w].message = Message(1, 0, 0, 0)
        /\ Flashed(w, "error", "Message cannot be empty")
        /\ pc[u] = "done" /\ req[u].kind = "send"
        /\ req[u].message = Message(1, MaxMessageLen, 1, SubjectLen + 1)
        /\ Flashed(u, "error", "No recipients configured")
        /\ file.exists

SentOk(w) == Flashed(w, "success", "Alert sent successfully")

Logged(w, event) == \E i \in 1..Len(smtp[w]) : smtp[w][i] = event

\* C6: success is flashed only when send_message returned and the server
\* accepted the message for every recipient of the To header; when login or
\* send_message raises, a failure is flashed, no success is, and the message
\* went to nobody.
C6_AllOrNone ==
    \A w \in Workers :
        /\ SentOk(w) => Logged(w, "send_message") /\ accepted[w] = Range(to[w])
        /\ (Logged(w, "login raises") \/ Logged(w, "send_message raises")) =>
              /\ Flashed(w, "error", "Failed to send email")
              /\ ~FlashedCat(w, "success")
              /\ accepted[w] = {}

Times(log, events) == Cardinality({i \in 1..Len(log) : log[i] \in events})

Before(log, first, then) ==
    \A i \in 1..Len(log) : log[i] \in then => \E j \in 1..(i - 1) : log[j] = first

\* C7: a call of send_email_to_all that found a recipient tries to connect
\* exactly once; login comes after the connection and send_message after a
\* successful login, each at most once; and every session that was opened is
\* closed, once and last, when the handler returns.
C7_SingleAttempt ==
    \A w \in Workers :
        LET log == smtp[w]
        IN  /\ Times(log, {"connect", "connect raises"}) <= 1
            /\ Times(log, {"login", "login raises"}) <= 1
            /\ Times(log, {"send_message", "send_message raises"}) <= 1
            /\ Before(log, "connect", {"login", "login raises"})
            /\ Before(log, "login", {"send_message", "send_message raises"})
            /\ (pc[w] = "done" /\ to[w] # <<>>) =>
                  Times(log, {"connect", "connect raises"}) = 1
            /\ (pc[w] = "done" /\ Logged(w, "connect")) =>
                  /\ Times(log, {"close"}) = 1
                  /\ log[Len(log)] = "close"
            /\ to[w] = <<>> => log = <<>>

\* What a request makes of the list it read, as a set: the address to add
\* joins it when it is valid and new, then the address to remove leaves it.
Intended(r, list) ==
    LET new == Lower(Strip(r.new_email))
        gone == Lower(Strip(r.remove_email))
        base == Range(list)
        added == IF new # <<>> /\ validate_email(new)
                       /\ \A e \in base : Lower(e) # new
                 THEN base \cup {new}
                 ELSE base
    IN  {e \in added : gone = <<>> \/ Lower(e) # gone}

\* C8: a save whose write succeeds on the file as its own open() left it
\* leaves in the file exactly what its own request made of the list it read,
\* whatever was written to the file between that read and that open().
C8_LastWriterWins ==
    [][\A w \in Workers :
          (/\ pc[w] = "f.write" /\ saved'[w] = "True"
           /\ handle[w] = OnPath /\ file.text = <<>>) =>
              /\ file'.exists
              /\ Range(ReadLines(file'.text)) = Intended(req[w], read[w])]_vars

\* Both requests read the same file, both flashed their add as a success and
\* saved without error, and the file holds only the second writer's address.
C8_Witness ==
    \E w, u \in Workers :
        /\ w # u
        /\ pc[w] = "done" /\ pc[u] = "done"
        /\ AddRequest(req[w]) /\ AddRequest(req[u])
        /\ read[w] = read[u]
        /\ flashes[w] = <<Success("Added", Lower(Strip(req[w].new_email)), 0)>>
        /\ flashes[u] = <<Success("Added", Lower(Strip(req[u].new_email)), 0)>>
        /\ saved[w] = "True" /\ saved[u] = "True"
        /\ Range(ReadLines(file.text)) = Intended(req[w], read[w])
        /\ Stored(req[w].new_email, file)
        /\ ~Stored(req[u].new_email, file)

\* C9: the count in "Alert sent successfully to N recipient(s)" is the number
\* of addresses in the To header of the message that was sent.
C9_CountIsToHeader ==
    \A w \in Workers :
        \A i \in 1..Len(flashes[w]) :
            flashes[w][i].msg = "Alert sent successfully" =>
                flashes[w][i].n = Len(to[w])

\* C10: a request whose save_recipients failed flashes no success.
C10_SuccessOnlyIfSaved ==
    \A w \in Workers : SaveFailed(w) => ~FlashedCat(w, "success")

====
